---- MODULE Spec2Model ----
(***************************************************************************)
(* gen_config of mlc_chat/compiler/gen_mlc_chat_config.py as a sequential  *)
(* state machine.  pc is the position in the function body; one action per *)
(* statement group.  Values of fields are written as their JSON literals   *)
(* (strings), None is the unset sentinel.                                  *)
(***************************************************************************)
EXTENDS Integers, Sequences, FiniteSets, TLC

VARIABLES
    args,                 \* the parameters of gen_config (overrides, names)
    config_json,          \* config.json on disk: "ok" | "unparsable"
    schema_result,        \* what model.config.from_dict returns for it
    generation_config,    \* generation_config.json on disk
    src_dir,              \* catalog files existing in config.parent
    out_dir,              \* tokenizer files in the output directory: name ->
                          \* "complete" | "partial"
    out_config,           \* mlc-chat-config.json in the output directory
    pc,                   \* position in gen_config
    error,                \* the exception that left gen_config, or "none"
    model_config,         \* local model_config (its __dict__)
    mlc_chat_config,      \* the attributes of the MLCChatConfig instance that
                          \* can hold None (tokenizer_files is kept apart)
    tokenizer_files,      \* mlc_chat_config.tokenizer_files
    i,                    \* index of the loop over TOKENIZER_FILES
    conversion,           \* outcome of the tokenizer.model conversion
    mlc_chat_config_dict, \* local mlc_chat_config_dict
    log                   \* records handed to logger

vars == <<args, config_json, schema_result, generation_config, src_dir, out_dir,
          out_config, pc, error, model_config, mlc_chat_config, tokenizer_files,
          i, conversion, mlc_chat_config_dict, log>>

None == "None"

VERSION == "0.1.0"

\* Bound: how many optional keys a layer (model config, generation config)
\* defines.
MaxLayerKeys == 2

\* The dataclass fields other than tokenizer_files, all defaulting to None
\* except version.
ScalarFields ==
    {"version", "model_type", "quantization", "model_config", "vocab_size",
     "max_window_size", "temperature", "repetition_penalty", "top_p",
     "mean_gen_len", "max_gen_len", "shift_fill_factor", "sliding_window",
     "prefill_chunk_size", "conv_template", "pad_token_id", "bos_token_id",
     "eos_token_id"}

\* Attributes of an instance that are no dataclass field and are None:
\* @dataclass (eq, not frozen) sets __hash__ = None on the class, and it can be
\* set on the instance; __weakref__ is None and not writable.
InstanceAttrs == ScalarFields \cup {"__hash__"}

ReadOnlyAttrs == {"__weakref__"}

MLCChatConfig ==
    [f \in InstanceAttrs |-> IF f = "version" THEN VERSION ELSE None]

DEFAULT_CONFIGS_NoShiftFill ==
    [pad_token_id |-> "0", bos_token_id |-> "1", eos_token_id |-> "2",
     temperature |-> "0.7", repetition_penalty |-> "1.0", top_p |-> "0.95",
     mean_gen_len |-> "128", max_gen_len |-> "512"]

DEFAULT_CONFIGS ==
    [pad_token_id |-> "0", bos_token_id |-> "1", eos_token_id |-> "2",
     temperature |-> "0.7", repetition_penalty |-> "1.0", top_p |-> "0.95",
     mean_gen_len |-> "128", max_gen_len |-> "512",
     shift_fill_factor |-> "0.3"]

TOKENIZER_FILES ==
    <<"tokenizer.model", "tokenizer.json", "vocab.json", "merges.txt",
      "added_tokens.json", "tokenizer_config.json">>

CatalogNames == {TOKENIZER_FILES[n] : n \in 1..Len(TOKENIZER_FILES)}

----------------------------------------------------------------------------
(* Pure helpers *)

\* ModelConfigOverride(...).apply(model_config): every override that is not
\* None overwrites the attribute of the same name.
OverrideKeys == {"context_window_size", "sliding_window", "prefill_chunk_size"}

ApplyOverrides(mc, a) ==
    LET given == {k \in OverrideKeys : a[k] # None}
    IN  [k \in (DOMAIN mc) \cup given |->
            IF k \in given THEN a[k] ELSE mc[k]]

\* for key, value in layer.items():
\*     if hasattr(cfg, key) and getattr(cfg, key) is None: setattr(cfg, key, value)
\* tokenizer_files is an attribute too, but holds a list, never None.
\* The loop run to its end:
SetIfNone_Overwrite(cfg, layer) ==
    [f \in InstanceAttrs |-> IF f \in DOMAIN layer THEN layer[f] ELSE cfg[f]]

SetIfNone(cfg, layer) ==
    [f \in InstanceAttrs |->
        IF f \in DOMAIN layer /\ cfg[f] = None THEN layer[f] ELSE cfg[f]]

\* the keys setattr succeeds on (each is logged as "Setting")
SetKeys(cfg, layer) ==
    {f \in InstanceAttrs : f \in DOMAIN layer /\ cfg[f] = None}

\* setattr raises AttributeError on a key naming a read-only attribute, which
\* passes the hasattr / is None test.
SetRaises(layer) == (DOMAIN layer) \cap ReadOnlyAttrs # {}

\* The items the loop may have gone through before setattr raised: the items
\* preceding the read-only key in the dict's order, which is an input.
Processed(layer) ==
    {[k \in S |-> layer[k]] : S \in SUBSET ((DOMAIN layer) \ ReadOnlyAttrs)}

\* Step 4: for key, value in DEFAULT_CONFIGS.items(): if getattr is None: set
LoadDefaults(cfg) ==
    [f \in InstanceAttrs |->
        IF f \in DOMAIN DEFAULT_CONFIGS /\ cfg[f] = None
        THEN DEFAULT_CONFIGS[f] ELSE cfg[f]]

\* dataclasses.asdict(mlc_chat_config): the fields only
AsDict(cfg) == [f \in ScalarFields |-> cfg[f]]

DeleteKey(d, key) == [k \in (DOMAIN d) \ {key} |-> d[k]]

\* if d["sliding_window"] is not None: del d["max_window_size"]
DropWindowSize_Truthy(d) ==
    IF d["sliding_window"] # None /\ d["sliding_window"] # "0"
    THEN DeleteKey(d, "max_window_size") ELSE d

DropWindowSize(d) ==
    IF d["sliding_window"] # None THEN DeleteKey(d, "max_window_size") ELSE d

\* for key, value in list(d.items()): if value is None: del d[key]
StripNone_GenerationOnly(d) ==
    [k \in {x \in DOMAIN d :
               ~(x \in DOMAIN DEFAULT_CONFIGS /\ d[x] = None)} |-> d[k]]

StripNone(d) == [k \in {x \in DOMAIN d : d[x] # None} |-> d[k]]

\* tokenizer_files.append(filename)
AppendName_Front(list, name) == <<name>> \o list

AppendName(list, name) == Append(list, name)

\* if tokenizer_model_file.exists() and (not tokenizer_json_file.exists())
ShouldConvert_ModelOnly(dir) == "tokenizer.model" \in dir

ShouldConvert(dir) ==
    "tokenizer.model" \in dir /\ "tokenizer.json" \notin dir

\* except ImportError / except Exception around the conversion
Caught_ImportOnly(exc) == exc = "ImportError"

Caught(exc) == exc \in {"ImportError", "Exception"}

\* with config.open(...): json.load(in_file) is outside any try block: a
\* failure leaves gen_config.
AfterLoadConfig_Swallowed(ok) == "from_dict"

AfterLoadConfig(ok) == IF ok THEN "from_dict" ELSE "aborted"

\* shutil.copy(file, dest) is outside any try block: a failure leaves
\* gen_config.
AfterCopy_Swallowed(ok, next) == next

AfterCopy(ok, next) == IF ok THEN next ELSE "aborted"

\* if generation_config.exists(): open + json.load, else log NOT_FOUND
ReadGenerationConfig_NoExistsCheck(g) ==
    IF g.exists /\ g.parses THEN "loaded" ELSE "raise"

ReadGenerationConfig(g) ==
    IF ~g.exists THEN "not_found"
    ELSE IF g.parses THEN "loaded" ELSE "raise"

Range(s) == {s[n] : n \in 1..Len(s)}

EmptyDict == [scalars |-> <<>>, tokenizer_files |-> <<>>]

Absent == [exists |-> FALSE, complete |-> FALSE, content |-> EmptyDict]

\* A document left in the output directory by an earlier run.
Stale == [exists |-> TRUE, complete |-> TRUE,
          content |-> [scalars |-> [version |-> "0.0.9"], tokenizer_files |-> <<>>]]

\* out.open("w") has truncated the file and json.dump did not finish.
Partial == [exists |-> TRUE, complete |-> FALSE, content |-> EmptyDict]

\* the output directory with one more file
WithFile(dir, name, state) ==
    [n \in (DOMAIN dir) \cup {name} |-> IF n = name THEN state ELSE dir[n]]

----------------------------------------------------------------------------
(* Inputs *)

\* All dicts over at most max keys of V, key k taking a value of V[k].
LayerDicts(V, max) ==
    UNION {{d \in [S -> UNION {V[k] : k \in S}] : \A k \in S : d[k] \in V[k]} :
             S \in {T \in SUBSET (DOMAIN V) : Cardinality(T) <= max}}

ArgsSet ==
    [context_window_size : {None, "1024"}, sliding_window : {None, "0"},
     prefill_chunk_size : {None, "256"}, model_name : {"llama"},
     quantization_name : {"q4f16_1"}, conv_template : {"llama-2"}]

\* Attributes every model config carries (read at the constructor call).
RequiredAttrs == [vocab_size |-> "32000", context_window_size |-> "2048"]

NonFieldKeys == ("__hash__" :> {"1"}) @@ ("__weakref__" :> {"1"})

ModelConfigOptional ==
    [sliding_window |-> {None, "4096"}, temperature |-> {"0.5"},
     hidden_size |-> {"64"}] @@ NonFieldKeys

GenerationConfigKeys ==
    [temperature |-> {None, "0.9"}, top_p |-> {"0.8"},
     sliding_window |-> {"8192"}, max_window_size |-> {"512"},
     do_sample |-> {"true"}] @@ NonFieldKeys

SchemaFailed == [ok |-> FALSE, dict |-> <<>>]

SchemaResults(max) ==
    {SchemaFailed} \cup
    {[ok |-> TRUE, dict |-> o @@ RequiredAttrs] :
        o \in LayerDicts(ModelConfigOptional, max)}

GenerationConfigs(max) ==
    {[exists |-> FALSE, parses |-> FALSE, json |-> <<>>],
     [exists |-> TRUE, parses |-> FALSE, json |-> <<>>]} \cup
    {[exists |-> TRUE, parses |-> TRUE, json |-> j] :
        j \in LayerDicts(GenerationConfigKeys, max)}

Locals ==
    /\ pc = "load_config"
    /\ error = "none"
    /\ out_dir = <<>>
    /\ model_config = <<>>
    /\ mlc_chat_config = MLCChatConfig
    /\ tokenizer_files = <<>>
    /\ i = 1
    /\ conversion = "not_attempted"
    /\ mlc_chat_config_dict = EmptyDict
    /\ log = {}

\* Rich layers, a few source directories.
Init ==
    /\ args \in ArgsSet
    /\ config_json \in {"ok", "unparsable"}
    /\ schema_result \in SchemaResults(MaxLayerKeys)
    /\ generation_config \in GenerationConfigs(MaxLayerKeys)
    /\ src_dir \in {{}, {"tokenizer.model"}, {"tokenizer.json", "vocab.json"}}
    /\ out_config = Absent
    /\ Locals

\* Every source directory, a few layers.
InitArtifacts ==
    /\ args \in {a \in ArgsSet : a.context_window_size = None
                                 /\ a.prefill_chunk_size = None}
    /\ config_json \in {"ok", "unparsable"}
    /\ schema_result \in SchemaResults(0) \cup
          {[ok |-> TRUE, dict |-> ("__weakref__" :> "1") @@ RequiredAttrs]}
    /\ generation_config \in GenerationConfigs(0) \cup
          {[exists |-> TRUE, parses |-> TRUE, json |-> ("__weakref__" :> "1")]}
    /\ src_dir \in SUBSET CatalogNames
    /\ out_config \in {Absent, Stale}
    /\ Locals

----------------------------------------------------------------------------
(* gen_config, statement by statement *)

\* with config.open("r") as in_file: model_config_json = json.load(in_file)
LoadConfig ==
    /\ pc = "load_config"
    /\ pc' = AfterLoadConfig(config_json = "ok")
    /\ error' = IF config_json = "ok" THEN error ELSE "config_unparsable"
    /\ UNCHANGED <<args, config_json, schema_result, generation_config, src_dir,
                   out_dir, out_config, model_config, mlc_chat_config,
                   tokenizer_files, i, conversion, mlc_chat_config_dict, log>>

\* model_config = model.config.from_dict(model_config_json)
FromDict ==
    /\ pc = "from_dict"
    /\ IF schema_result.ok
       THEN /\ model_config' = schema_result.dict
            /\ pc' = "override"
            /\ error' = error
       ELSE /\ model_config' = model_config
            /\ pc' = "aborted"
            /\ error' = "schema"
    /\ UNCHANGED <<args, config_json, schema_result, generation_config, src_dir,
                   out_dir, out_config, mlc_chat_config, tokenizer_files, i,
                   conversion, mlc_chat_config_dict, log>>

\* ModelConfigOverride(...).apply(model_config)
Override ==
    /\ pc = "override"
    /\ model_config' = ApplyOverrides(model_config, args)
    /\ pc' = "construct"
    /\ UNCHANGED <<args, config_json, schema_result, generation_config, src_dir,
                   out_dir, out_config, error, mlc_chat_config, tokenizer_files,
                   i, conversion, mlc_chat_config_dict, log>>

\* mlc_chat_config = MLCChatConfig(model_type=..., ...)
Construct ==
    /\ pc = "construct"
    /\ mlc_chat_config' =
          [MLCChatConfig EXCEPT
              !["model_type"] = args.model_name,
              !["quantization"] = args.quantization_name,
              !["model_config"] = "model_config_json",
              !["vocab_size"] = model_config["vocab_size"],
              !["conv_template"] = args.conv_template,
              !["max_window_size"] = model_config["context_window_size"]]
    /\ tokenizer_files' = <<>>
    /\ pc' = "step1"
    /\ UNCHANGED <<args, config_json, schema_result, generation_config, src_dir,
                   out_dir, out_config, error, model_config, i, conversion,
                   mlc_chat_config_dict, log>>

\* Step 1. Load `config.json`
Step1 ==
    /\ pc = "step1"
    /\ ~SetRaises(model_config)
    /\ mlc_chat_config' = SetIfNone(mlc_chat_config, model_config)
    /\ log' = log \cup {<<"info", "[config.json] Setting", k>> :
                           k \in SetKeys(mlc_chat_config, model_config)}
    /\ pc' = "step2"
    /\ UNCHANGED <<args, config_json, schema_result, generation_config, src_dir,
                   out_dir, out_config, error, model_config, tokenizer_files, i,
                   conversion, mlc_chat_config_dict>>

\* setattr at line 82 raises AttributeError, after some items were gone through
Step1Raise ==
    /\ pc = "step1"
    /\ SetRaises(model_config)
    /\ \E done \in Processed(model_config) :
          /\ mlc_chat_config' = SetIfNone(mlc_chat_config, done)
          /\ log' = log \cup {<<"info", "[config.json] Setting", k>> :
                                 k \in SetKeys(mlc_chat_config, done)}
    /\ pc' = "aborted"
    /\ error' = "setattr_failed"
    /\ UNCHANGED <<args, config_json, schema_result, generation_config, src_dir,
                   out_dir, out_config, model_config, tokenizer_files, i,
                   conversion, mlc_chat_config_dict>>

\* Step 2. Load `generation_config.json`
Step2Found ==
    /\ pc = "step2"
    /\ ReadGenerationConfig(generation_config) = "loaded"
    /\ ~SetRaises(generation_config.json)
    /\ mlc_chat_config' = SetIfNone(mlc_chat_config, generation_config.json)
    /\ log' = log \cup {<<"info", "Found", "generation_config.json">>}
                  \cup {<<"info", "[generation_config.json] Setting", k>> :
                           k \in SetKeys(mlc_chat_config, generation_config.json)}
    /\ pc' = "step3"
    /\ UNCHANGED <<args, config_json, schema_result, generation_config, src_dir,
                   out_dir, out_config, error, model_config, tokenizer_files, i,
                   conversion, mlc_chat_config_dict>>

\* setattr at line 92 raises AttributeError, after some items were gone through
Step2SetRaise ==
    /\ pc = "step2"
    /\ ReadGenerationConfig(generation_config) = "loaded"
    /\ SetRaises(generation_config.json)
    /\ \E done \in Processed(generation_config.json) :
          /\ mlc_chat_config' = SetIfNone(mlc_chat_config, done)
          /\ log' = log \cup {<<"info", "Found", "generation_config.json">>}
                        \cup {<<"info", "[generation_config.json] Setting", k>> :
                                 k \in SetKeys(mlc_chat_config, done)}
    /\ pc' = "aborted"
    /\ error' = "setattr_failed"
    /\ UNCHANGED <<args, config_json, schema_result, generation_config, src_dir,
                   out_dir, out_config, model_config, tokenizer_files, i,
                   conversion, mlc_chat_config_dict>>

\* json.load at line 89 raises
Step2Raise ==
    /\ pc = "step2"
    /\ ReadGenerationConfig(generation_config) = "raise"
    /\ log' = IF generation_config.exists
              THEN log \cup {<<"info", "Found", "generation_config.json">>}
              ELSE log
    /\ pc' = "aborted"
    /\ error' = "generation_config_unparsable"
    /\ UNCHANGED <<args, config_json, schema_result, generation_config, src_dir,
                   out_dir, out_config, model_config, mlc_chat_config,
                   tokenizer_files, i, conversion, mlc_chat_config_dict>>

Step2NotFound ==
    /\ pc = "step2"
    /\ ReadGenerationConfig(generation_config) = "not_found"
    /\ log' = log \cup {<<"info", "Not found", "generation_config.json">>}
    /\ pc' = "step3"
    /\ UNCHANGED <<args, config_json, schema_result, generation_config, src_dir,
                   out_dir, out_config, error, model_config, mlc_chat_config,
                   tokenizer_files, i, conversion, mlc_chat_config_dict>>

\* Step 3.1: for filename in TOKENIZER_FILES: if file.exists(): append ...
NextFile == IF i = Len(TOKENIZER_FILES) THEN "convert" ELSE "step3"

Step3Exists ==
    /\ pc = "step3"
    /\ TOKENIZER_FILES[i] \in src_dir
    /\ tokenizer_files' = AppendName(tokenizer_files, TOKENIZER_FILES[i])
    /\ pc' = "copy"
    /\ UNCHANGED <<args, config_json, schema_result, generation_config, src_dir,
                   out_dir, out_config, error, model_config, mlc_chat_config, i,
                   conversion, mlc_chat_config_dict, log>>

\* dest = output / filename; shutil.copy(file, dest); logger.info(FOUND ...)
\* A copy that raises may have created or partly written its destination.
Step3Copy ==
    /\ pc = "copy"
    /\ \E ok \in BOOLEAN :
          /\ pc' = AfterCopy(ok, NextFile)
          /\ IF ok
             THEN /\ out_dir' = WithFile(out_dir, TOKENIZER_FILES[i], "complete")
                  /\ log' = log \cup {<<"info", "Found", TOKENIZER_FILES[i]>>}
                  /\ i' = IF i = Len(TOKENIZER_FILES) THEN i ELSE i + 1
                  /\ error' = error
             ELSE /\ out_dir' \in {out_dir,
                                   WithFile(out_dir, TOKENIZER_FILES[i], "partial")}
                  /\ log' = log
                  /\ i' = i
                  /\ error' = "copy_failed"
    /\ UNCHANGED <<args, config_json, schema_result, generation_config, src_dir,
                   out_config, model_config, mlc_chat_config, tokenizer_files,
                   conversion, mlc_chat_config_dict>>

Step3NotFound ==
    /\ pc = "step3"
    /\ TOKENIZER_FILES[i] \notin src_dir
    /\ log' = log \cup {<<"info", "Not found", TOKENIZER_FILES[i]>>}
    /\ pc' = NextFile
    /\ i' = IF i = Len(TOKENIZER_FILES) THEN i ELSE i + 1
    /\ UNCHANGED <<args, config_json, schema_result, generation_config, src_dir,
                   out_dir, out_config, error, model_config, mlc_chat_config,
                   tokenizer_files, conversion, mlc_chat_config_dict>>

\* Step 3.2: if tokenizer.model exists and tokenizer.json does not
ConvertAttempt ==
    /\ pc = "convert"
    /\ ShouldConvert(src_dir)
    /\ log' = log \cup {<<"info", "Attempting to convert", "tokenizer.model">>}
    /\ pc' = "try_convert"
    /\ UNCHANGED <<args, config_json, schema_result, generation_config, src_dir,
                   out_dir, out_config, error, model_config, mlc_chat_config,
                   tokenizer_files, i, conversion, mlc_chat_config_dict>>

ConvertSkip ==
    /\ pc = "convert"
    /\ ~ShouldConvert(src_dir)
    /\ pc' = "step4"
    /\ UNCHANGED <<args, config_json, schema_result, generation_config, src_dir,
                   out_dir, out_config, error, model_config, mlc_chat_config,
                   tokenizer_files, i, conversion, mlc_chat_config_dict, log>>

\* import, from_pretrained and backend_tokenizer.save all succeed
ConvertSave ==
    /\ pc = "try_convert"
    /\ out_dir' = WithFile(out_dir, "tokenizer.json", "complete")
    /\ conversion' = "ok"
    /\ pc' = "converted"
    /\ UNCHANGED <<args, config_json, schema_result, generation_config, src_dir,
                   out_config, error, model_config, mlc_chat_config,
                   tokenizer_files, i, mlc_chat_config_dict, log>>

\* mlc_chat_config.tokenizer_files.append("tokenizer.json"); logger.info(...)
ConvertAppend ==
    /\ pc = "converted"
    /\ tokenizer_files' = AppendName(tokenizer_files, "tokenizer.json")
    /\ log' = log \cup {<<"info", "Succesfully converted", "tokenizer.json">>}
    /\ pc' = "step4"
    /\ UNCHANGED <<args, config_json, schema_result, generation_config, src_dir,
                   out_dir, out_config, error, model_config, mlc_chat_config, i,
                   conversion, mlc_chat_config_dict>>

\* the import raises ImportError, or something in the try block raises:
\* another Exception, or a BaseException that is no Exception
\* (KeyboardInterrupt, SystemExit), which neither handler catches. The two
\* handlers only call logger.warning. A save that raises may leave a partly
\* written tokenizer.json.
ConvertFail ==
    /\ pc = "try_convert"
    /\ \E exc \in {"ImportError", "Exception", "BaseException"} :
          /\ conversion' = exc
          /\ out_dir' \in IF exc = "ImportError" THEN {out_dir}
                          ELSE {out_dir, WithFile(out_dir, "tokenizer.json", "partial")}
          /\ IF Caught(exc)
             THEN /\ log' = log \cup {<<"warning", "skipping conversion", exc>>}
                  /\ pc' = "step4"
                  /\ error' = error
             ELSE /\ log' = log
                  /\ pc' = "aborted"
                  /\ error' = "conversion_interrupted"
    /\ UNCHANGED <<args, config_json, schema_result, generation_config, src_dir,
                   out_config, model_config, mlc_chat_config, tokenizer_files, i,
                   mlc_chat_config_dict>>

\* Step 4. Load system default value
Step4 ==
    /\ pc = "step4"
    /\ mlc_chat_config' = LoadDefaults(mlc_chat_config)
    /\ log' = log \cup {<<"info", "[System default] Setting", k>> :
                           k \in SetKeys(mlc_chat_config, DEFAULT_CONFIGS)}
    /\ pc' = "cleanup"
    /\ UNCHANGED <<args, config_json, schema_result, generation_config, src_dir,
                   out_dir, out_config, error, model_config, tokenizer_files, i,
                   conversion, mlc_chat_config_dict>>

\* mlc_chat_config_dict = dataclasses.asdict(mlc_chat_config) and the two
\* clean-up passes
CleanUp ==
    /\ pc = "cleanup"
    /\ mlc_chat_config_dict' =
          [scalars |-> StripNone(DropWindowSize(AsDict(mlc_chat_config))),
           tokenizer_files |-> tokenizer_files]
    /\ log' = log \cup {<<"info", "[CleanUp] Deleting", k>> :
                           k \in ScalarFields \
                                 DOMAIN StripNone(DropWindowSize(AsDict(mlc_chat_config)))}
    /\ pc' = "dump"
    /\ UNCHANGED <<args, config_json, schema_result, generation_config, src_dir,
                   out_dir, out_config, error, model_config, mlc_chat_config,
                   tokenizer_files, i, conversion>>

\* with out.open("w") as out_file: json.dump(mlc_chat_config_dict, out_file)
Dump ==
    /\ pc = "dump"
    /\ out_config' = [exists |-> TRUE, complete |-> TRUE,
                      content |-> mlc_chat_config_dict]
    /\ log' = log \cup {<<"info", "Dumping configuration file", "mlc-chat-config.json">>}
    /\ pc' = "done"
    /\ UNCHANGED <<args, config_json, schema_result, generation_config, src_dir,
                   out_dir, error, model_config, mlc_chat_config, tokenizer_files,
                   i, conversion, mlc_chat_config_dict>>

\* out.open("w") raises (the file is left as it was), or json.dump raises
\* after open has truncated the file.
DumpRaise ==
    /\ pc = "dump"
    /\ out_config' \in {out_config, Partial}
    /\ pc' = "aborted"
    /\ error' = "dump_failed"
    /\ UNCHANGED <<args, config_json, schema_result, generation_config, src_dir,
                   out_dir, model_config, mlc_chat_config, tokenizer_files, i,
                   conversion, mlc_chat_config_dict, log>>

Next ==
    \/ LoadConfig
    \/ FromDict
    \/ Override
    \/ Construct
    \/ Step1
    \/ Step1Raise
    \/ Step2Found
    \/ Step2SetRaise
    \/ Step2Raise
    \/ Step2NotFound
    \/ Step3Exists
    \/ Step3Copy
    \/ Step3NotFound
    \/ ConvertAttempt
    \/ ConvertSkip
    \/ ConvertSave
    \/ ConvertAppend
    \/ ConvertFail
    \/ Step4
    \/ CleanUp
    \/ Dump
    \/ DumpRaise

Spec == Init /\ [][Next]_vars

\* gen_config is sequential code that never blocks: a step that can be taken
\* is taken.
SpecArtifacts == InitArtifacts /\ [][Next]_vars /\ WF_vars(Next)

----------------------------------------------------------------------------
(* Properties *)

Document == out_config.content

Written == pc = "done" /\ out_config.exists /\ out_config.complete

\* the file is in the output directory and its copy or save has completed
InOutput(name) == name \in DOMAIN out_dir /\ out_dir[name] = "complete"

Lookup(layer, f) == IF f \in DOMAIN layer THEN layer[f] ELSE None

\* The first value of a sequence of candidates that is not None.
RECURSIVE FirstNonNone(_)
FirstNonNone(vals) ==
    IF vals = <<>> THEN None
    ELSE IF Head(vals) # None THEN Head(vals) ELSE FirstNonNone(Tail(vals))

\* The values the caller passes to the constructor, field by field.
Explicit(f) ==
    CASE f = "version" -> "0.1.0"
      [] f = "model_type" -> args.model_name
      [] f = "quantization" -> args.quantization_name
      [] f = "model_config" -> "model_config_json"
      [] f = "vocab_size" -> model_config["vocab_size"]
      [] f = "conv_template" -> args.conv_template
      [] f = "max_window_size" -> model_config["context_window_size"]
      [] OTHER -> None

GenerationLayer ==
    IF generation_config.exists /\ generation_config.parses
    THEN generation_config.json ELSE <<>>

SystemDefaults ==
    [pad_token_id |-> "0", bos_token_id |-> "1", eos_token_id |-> "2",
     temperature |-> "0.7", repetition_penalty |-> "1.0", top_p |-> "0.95",
     mean_gen_len |-> "128", max_gen_len |-> "512",
     shift_fill_factor |-> "0.3"]

CatalogIndex(name) ==
    CHOOSE n \in 1..Len(TOKENIZER_FILES) : TOKENIZER_FILES[n] = name

InCatalogOrder(list) ==
    \A a, b \in 1..Len(list) :
        a < b => CatalogIndex(list[a]) < CatalogIndex(list[b])

Count(list, name) == Cardinality({n \in 1..Len(list) : list[n] = name})

ConversionFailed == conversion \in {"ImportError", "Exception", "BaseException"}

ConversionCaught == conversion \in {"ImportError", "Exception"}

\* C1: in every written document sliding_window and max_window_size are
\* never both present; whenever the merged record's sliding_window is not
\* None (0 included), max_window_size is absent from the document.
C1_WindowExclusive ==
    Written =>
        /\ ~({"sliding_window", "max_window_size"} \subseteq DOMAIN Document.scalars)
        /\ mlc_chat_config["sliding_window"] # None
              => "max_window_size" \notin DOMAIN Document.scalars

C1_Witness ==
    /\ Written
    /\ args.context_window_size = "1024"
    /\ mlc_chat_config["max_window_size"] = "1024"
    /\ mlc_chat_config["sliding_window"] = "0"
    /\ "sliding_window" \in DOMAIN Document.scalars
    /\ "max_window_size" \notin DOMAIN Document.scalars

\* C2: first-write-wins: after each layer has been loaded, every field holds
\* the first non-None value among the layers loaded so far, in the order
\* constructor values, model config, generation_config.json, DEFAULT_CONFIGS
\* (None if no layer supplies one).
C2_FirstWriteWins ==
    \A f \in ScalarFields :
        /\ pc = "step2" =>
              mlc_chat_config[f] =
                 FirstNonNone(<<Explicit(f), Lookup(model_config, f)>>)
        /\ pc \in {"step3", "copy", "convert", "try_convert", "converted", "step4"} =>
              mlc_chat_config[f] =
                 FirstNonNone(<<Explicit(f), Lookup(model_config, f),
                                Lookup(GenerationLayer, f)>>)
        /\ pc \in {"cleanup", "dump", "done"} =>
              mlc_chat_config[f] =
                 FirstNonNone(<<Explicit(f), Lookup(model_config, f),
                                Lookup(GenerationLayer, f),
                                Lookup(SystemDefaults, f)>>)

C2_Witness ==
    /\ Written
    /\ Lookup(model_config, "temperature") = "0.5"
    /\ Lookup(GenerationLayer, "temperature") = "0.9"
    /\ mlc_chat_config["temperature"] = "0.5"
    /\ Lookup(GenerationLayer, "max_window_size") = "512"
    /\ mlc_chat_config["max_window_size"] = "2048"

\* C3: no field of the written document holds None: every field whose
\* resolved value is None is absent from the document.
C3_NoNoneInDocument ==
    Written =>
        /\ \A k \in DOMAIN Document.scalars : Document.scalars[k] # None
        /\ \A n \in 1..Len(Document.tokenizer_files) :
              Document.tokenizer_files[n] # None
        /\ \A f \in ScalarFields :
              mlc_chat_config[f] = None => f \notin DOMAIN Document.scalars

C3_Witness ==
    /\ Written
    /\ mlc_chat_config["sliding_window"] = None
    /\ mlc_chat_config["prefill_chunk_size"] = None
    /\ "sliding_window" \notin DOMAIN Document.scalars
    /\ "prefill_chunk_size" \notin DOMAIN Document.scalars
    /\ "max_window_size" \in DOMAIN Document.scalars

\* C4: each of the nine default keys is present in every written document,
\* and carries exactly its default value when neither the model config nor
\* generation_config.json supplies a non-None value for it.
C4_DefaultsApplied ==
    Written =>
        \A k \in DOMAIN SystemDefaults :
            /\ k \in DOMAIN Document.scalars
            /\ (Lookup(model_config, k) = None /\ Lookup(GenerationLayer, k) = None)
                  => Document.scalars[k] = SystemDefaults[k]

C4_Witness ==
    /\ Written
    /\ ~generation_config.exists
    /\ "temperature" \notin DOMAIN model_config
    /\ Document.scalars["temperature"] = "0.7"
    /\ Document.scalars["top_p"] = "0.95"
    /\ Document.scalars["pad_token_id"] = "0"
    /\ Document.scalars["shift_fill_factor"] = "0.3"

\* C5 as stated: the artifact list of the written document is in catalog
\* order, whether or not a conversion added tokenizer.json.
C5_CatalogOrder_Stated ==
    Written => InCatalogOrder(Document.tokenizer_files)

\* C5 amended: the copied names are exactly the catalog files of the source
\* directory, in catalog order; a converted tokenizer.json is the last name
\* of the list, after every copied name.
C5_CatalogOrder ==
    Written =>
        LET list == Document.tokenizer_files
            copied == IF conversion = "ok"
                      THEN SubSeq(list, 1, Len(list) - 1) ELSE list
        IN  /\ InCatalogOrder(copied)
            /\ Range(copied) = src_dir
            /\ Len(copied) = Cardinality(src_dir)
            /\ conversion = "ok" =>
                  /\ Len(list) >= 1
                  /\ list[Len(list)] = "tokenizer.json"

C5_Witness ==
    /\ Written
    /\ conversion = "ok"
    /\ Document.tokenizer_files = <<"tokenizer.model", "vocab.json", "tokenizer.json">>

\* C6: the conversion is attempted exactly when tokenizer.model exists and
\* tokenizer.json does not; when it succeeds the list holds tokenizer.model
\* and then tokenizer.json, each once; tokenizer.json is listed iff it was in
\* the source directory or the conversion succeeded.
C6_ConversionFallback ==
    LET attempted == pc \in {"try_convert", "converted"}
                        \/ conversion # "not_attempted"
        wanted == "tokenizer.model" \in src_dir /\ "tokenizer.json" \notin src_dir
    IN  /\ attempted => wanted
        /\ (pc \in {"step4", "cleanup", "dump", "done"} /\ wanted) => attempted
        /\ (Written /\ conversion = "ok") =>
              LET list == Document.tokenizer_files
              IN  /\ Count(list, "tokenizer.model") = 1
                  /\ Count(list, "tokenizer.json") = 1
                  /\ \E a, b \in 1..Len(list) :
                        /\ a < b
                        /\ list[a] = "tokenizer.model"
                        /\ list[b] = "tokenizer.json"
        /\ Written =>
              ("tokenizer.json" \in Range(Document.tokenizer_files)
                  <=> ("tokenizer.json" \in src_dir \/ conversion = "ok"))

C6_Witness ==
    /\ Written
    /\ src_dir = {"tokenizer.model"}
    /\ conversion = "ok"
    /\ Document.tokenizer_files = <<"tokenizer.model", "tokenizer.json">>

\* C7 as stated: whatever makes the conversion fail, the run is not aborted.
C7_ConversionAdvisory_Stated ==
    ConversionFailed => pc # "aborted"

\* C7 amended: a conversion that fails with ImportError or another Exception
\* never aborts the run at the conversion and never lists tokenizer.json; the
\* run goes on to the dump, and unless the write of the document itself
\* fails the document is written with an artifact list holding only the
\* files found. A BaseException that is no Exception raised by the conversion
\* is not caught: it aborts the run and no document is written.
C7_ConversionAdvisory ==
    /\ [](ConversionCaught =>
             /\ pc = "aborted" => error = "dump_failed"
             /\ "tokenizer.json" \notin Range(tokenizer_files))
    /\ [](conversion = "BaseException" =>
             /\ pc = "aborted"
             /\ error = "conversion_interrupted"
             /\ out_config \in {Absent, Stale})
    /\ (ConversionCaught ~>
             \/ error = "dump_failed"
             \/ /\ Written
                /\ "tokenizer.json" \notin Range(Document.tokenizer_files)
                /\ Range(Document.tokenizer_files) = src_dir)

C7_Witness ==
    /\ Written
    /\ conversion = "Exception"
    /\ src_dir = {"tokenizer.model"}
    /\ Document.tokenizer_files = <<"tokenizer.model">>
    /\ <<"warning", "skipping conversion", "Exception">> \in log

\* C8 as stated: only an unparsable config.json and a failing model schema
\* abort the run.
C8_OnlyFatalAbort_Stated ==
    pc = "aborted" => error \in {"config_unparsable", "schema"}

\* C8 amended: the run is aborted by an unparsable config.json, a failing
\* model schema, an unparsable generation_config.json, a layer key naming a
\* read-only attribute, a failing copy, a BaseException out of the conversion
\* or a failing write of the document, and by nothing else; a missing
\* generation_config.json, a missing catalog file and a conversion failing
\* with an Exception leave a log record and the run goes on; every run ends
\* aborted or with the document written.
C8_AbortCauses ==
    /\ (pc = "aborted") <=> (error # "none")
    /\ error \in {"none", "config_unparsable", "schema",
                  "generation_config_unparsable", "setattr_failed",
                  "copy_failed", "conversion_interrupted", "dump_failed"}
    /\ error = "config_unparsable" => config_json = "unparsable"
    /\ error = "schema" => ~schema_result.ok
    /\ error = "generation_config_unparsable" =>
          generation_config.exists /\ ~generation_config.parses
    /\ error = "setattr_failed" =>
          \/ "__weakref__" \in DOMAIN model_config
          \/ "__weakref__" \in DOMAIN GenerationLayer
    /\ error = "copy_failed" => TOKENIZER_FILES[i] \in src_dir
    /\ error = "conversion_interrupted" => conversion = "BaseException"
    /\ (pc \in {"step3", "copy", "convert", "try_convert", "converted", "step4",
                "cleanup", "dump", "done"} /\ ~generation_config.exists) =>
          <<"info", "Not found", "generation_config.json">> \in log
    /\ pc \in {"convert", "try_convert", "converted", "step4", "cleanup", "dump",
               "done"} =>
          \A name \in CatalogNames \ src_dir : <<"info", "Not found", name>> \in log
    /\ ConversionCaught => <<"warning", "skipping conversion", conversion>> \in log

C8_RecoverableContinue ==
    /\ []C8_AbortCauses
    /\ <>(pc = "aborted" \/ Written)

C8_Witness ==
    /\ Written
    /\ ~generation_config.exists
    /\ src_dir = {"tokenizer.model", "merges.txt"}
    /\ conversion = "ImportError"
    /\ Document.tokenizer_files = <<"tokenizer.model", "merges.txt">>

\* C9: no step that raises a fatal error (config.json unparsable, model
\* schema failing), and no step after one, creates or modifies
\* mlc-chat-config.json; the document is touched only by the write that ends
\* the run, after merge, artifact resolution and clean-up.
C9_NoPartialDocument ==
    /\ [][(error \in {"config_unparsable", "schema"}
             \/ error' \in {"config_unparsable", "schema"})
            => out_config' = out_config]_vars
    /\ [][out_config' # out_config
            => pc = "dump" /\ pc' \in {"done", "aborted"}]_vars

C9_Witness ==
    /\ pc = "aborted"
    /\ error = "schema"
    /\ out_config = Stale

\* C10 as stated: in every reachable state each name of tokenizer_files is
\* a file whose copy or conversion into the output directory has completed.
C10_AppendAfterCopy_Stated ==
    \A name \in Range(tokenizer_files) : InOutput(name)

\* C10 amended: each name of tokenizer_files is a file completely copied or
\* saved in the output directory, except the last name while its copy is
\* pending or after that copy failed and aborted the run; a converted
\* tokenizer.json is listed only once saved; every name in a written document
\* is a complete file of the output directory.
C10_AppendAfterCopy ==
    /\ \A k \in 1..Len(tokenizer_files) :
          \/ InOutput(tokenizer_files[k])
          \/ /\ k = Len(tokenizer_files)
             /\ tokenizer_files[k] = TOKENIZER_FILES[i]
             /\ pc = "copy" \/ (pc = "aborted" /\ error = "copy_failed")
    /\ ("tokenizer.json" \in Range(tokenizer_files) /\ "tokenizer.json" \notin src_dir)
          => InOutput("tokenizer.json")
    /\ Written => \A name \in Range(Document.tokenizer_files) : InOutput(name)

C10_Witness ==
    /\ pc = "aborted"
    /\ error = "copy_failed"
    /\ tokenizer_files = <<"tokenizer.model", "vocab.json">>
    /\ InOutput("tokenizer.model")
    /\ "vocab.json" \in DOMAIN out_dir
    /\ out_dir["vocab.json"] = "partial"

====
